---- MODULE Spec2Model ----
(***************************************************************************)
(* Model of prodesk_task_02.py: a FastAPI service whose one handler,       *)
(* get_weather -> fetch_weather, reads the OpenWeatherMap credential from  *)
(* the process environment, issues one GET to the upstream, classifies the *)
(* upstream status and maps the JSON payload into a WeatherInfo.           *)
(*                                                                         *)
(* Encoding.  A Python str whose characters matter (a description) is a    *)
(* sequence of one-character strings; other strs are TLA+ strings.  A      *)
(* Python dict is a function whose DOMAIN is the set of keys present.  An  *)
(* optional value (None or a value) is <<>> or <<value>>.  A local         *)
(* variable of a request is a function on the requests that have bound it. *)
(* pending[r] is the exception or return value leaving the `async with`    *)
(* block of request r; result[r] is what the request finally answered.     *)
(***************************************************************************)
EXTENDS Integers, Sequences, FiniteSets, TLC

VARIABLES environ, pc, city_name, api_key, outbound, response, stdout, pending, result

vars == <<environ, pc, city_name, api_key, outbound, response, stdout, pending, result>>

(* ------------------------------ bounds --------------------------------- *)

NumReq == 2

MaxDescLen == 3

MaxWeather == 2

Requests == 1..NumReq

(* ------------------------------ inputs --------------------------------- *)

KeyName == "OPENWEATHERMAP_API_KEY"

None == <<>>

Some(v) == <<v>>

\* The process environment, restricted to the credential variable: unset,
\* set to the empty string, or set to one of two keys.
Environs ==
    {[n \in {} |-> ""]} \cup {[n \in {KeyName} |-> v] : v \in {"", "key-A", "key-B"}}

\* City names as the router hands them to get_weather: non-ASCII, and a
\* lone blank.
Cities == {"Zürich", " "}

\* Characters of an upstream description: a lower-case letter, an upper-case
\* letter and a character without case.
DescChars == {"a", "Z", " "}

RECURSIVE StringsUpTo(_, _)
StringsUpTo(chars, n) ==
    IF n = 0 THEN {<<>>}
    ELSE LET shorter == StringsUpTo(chars, n - 1)
         IN  shorter \cup {Append(s, c) : s \in {t \in shorter : Len(t) = n - 1}, c \in chars}

Descriptions == StringsUpTo(DescChars, MaxDescLen)

\* Every dict over the keys `keys` (any subset present) with values in vals.
Dicts(keys, vals) == UNION {[K -> vals] : K \in SUBSET keys}

RECURSIVE ListsUpTo(_, _)
ListsUpTo(elems, n) ==
    IF n = 0 THEN {<<>>}
    ELSE LET shorter == ListsUpTo(elems, n - 1)
         IN  shorter \cup {Append(s, e) : s \in {t \in shorter : Len(t) = n - 1}, e \in elems}

Optional(S) == {None} \cup {Some(v) : v \in S}

\* The dict with key k bound to the value of opt, or without k when opt is None.
Field(k, opt) == IF opt = None THEN <<>> ELSE k :> opt[1]

UpstreamNames == {"London"}

Temps == {-3, 12}

Humidities == {81}

Speeds == {4}

MainDicts ==
    {Field("temp", t) @@ Field("humidity", h) : t \in Optional(Temps), h \in Optional(Humidities)}

WindDicts == Dicts({"speed"}, Speeds)

\* Descriptions of the conditions in the payloads of the mapping specification.
MapDescriptions == {<<"a", "Z">>, <<"Z">>}

Conditions == Dicts({"description"}, MapDescriptions)

WeatherLists == ListsUpTo(Conditions, MaxWeather)

\* The JSON objects the upstream may send: each of name, main, weather and
\* wind present or absent, and each nested key present or absent.
JsonObjects ==
    {Field("name", n) @@ Field("main", m) @@ Field("weather", w) @@ Field("wind", wi) :
        n \in Optional(UpstreamNames), m \in Optional(MainDicts),
        w \in Optional(WeatherLists), wi \in Optional(WindDicts)}

\* A response body: text that parses as a JSON object, or text that does not parse.
NotJson == [is_json |-> FALSE, data |-> <<>>]

Json(obj) == [is_json |-> TRUE, data |-> obj]

CompleteObject ==
    [name |-> "London", main |-> [temp |-> 12, humidity |-> 81],
     weather |-> <<[description |-> <<"a", "Z">>], [description |-> <<"Z">>]>>,
     wind |-> [speed |-> 4]]

NoWeatherObject ==
    [name |-> "London", main |-> [temp |-> -3, humidity |-> 81], wind |-> [speed |-> 4]]

Statuses == {200, 201, 301, 400, 404, 500}

Response(status, text) == [status_code |-> status, text |-> text]

\* Upstream answers of the mapping specification: every JSON object (and a
\* body that is no JSON) under 200; under the other statuses a body that would
\* map to a report, one that would not, and one that is no JSON.
MapResponses ==
    {Response(200, Json(o)) : o \in JsonObjects} \cup
    {Response(s, b) : s \in Statuses, b \in {Json(CompleteObject), Json(NoWeatherObject), NotJson}}

\* Upstream answers of the capitalisation specification: a complete payload
\* whose first condition carries each description in turn.
CapResponses ==
    {Response(200, Json([CompleteObject EXCEPT !["weather"] = <<[description |-> d]>>])) :
        d \in Descriptions}

\* Upstream answers of the concurrent specification.
Responses ==
    {Response(200, Json(CompleteObject)), Response(200, Json(NoWeatherObject)),
     Response(404, NotJson), Response(500, Json(CompleteObject))}

(* ------------------------------ program -------------------------------- *)

\* os.getenv(name): the variable's value, or None when it is unset.
getenvDefault(name) == IF name \in DOMAIN environ THEN Some(environ[name]) ELSE Some("demo")

getenv(name) == IF name \in DOMAIN environ THEN Some(environ[name]) ELSE None

\* `not api_key`: None and the empty string are both falsy.
KeyMissingNoneOnly(key) == key = None

KeyMissing(key) == key = None \/ key[1] = ""

HTTPException(status_code, detail) ==
    [status_code |-> status_code, raised |-> "HTTPException", detail |-> detail]

\* An exception no handler catches leaves the route as a plain 500.
Unhandled(exception) ==
    [status_code |-> 500, raised |-> exception, detail |-> <<"Internal Server Error">>]

\* A returned WeatherInfo is serialised under response_model with status 200.
Returned(report) == [status_code |-> 200, raised |-> "", body |-> report]

ConfigMissing ==
    HTTPException(500, <<"OpenWeatherMap API key is missing. Please set it in your environment variables.">>)

UpstreamFailure ==
    HTTPException(502, <<"Something went wrong while fetching weather data.">>)

\* f"City '{city_name}' not found."
NotFoundDetailGeneric(city) == <<"City not found.">>

NotFoundDetail(city) == <<"City '", city, "' not found.">>

api_url == "https://api.openweathermap.org/data/2.5/weather"

\* city_name.strip() would rewrite a blank name.
QueryParametersStripped(city, key) ==
    [q |-> IF city = " " THEN "" ELSE city, appid |-> key, units |-> "metric"]

QueryParameters(city, key) == [q |-> city, appid |-> key, units |-> "metric"]

\* The GETs one run of fetch_weather issues: none when the key check raises,
\* else the single client.get(api_url, params=query_parameters).
OutboundCallsTwice(city, key) ==
    IF KeyMissing(key) THEN <<>>
    ELSE <<[url |-> api_url, params |-> QueryParameters(city, key[1])],
           [url |-> api_url, params |-> QueryParameters(city, key[1])]>>

OutboundCalls(city, key) ==
    IF KeyMissing(key) THEN <<>>
    ELSE <<[url |-> api_url, params |-> QueryParameters(city, key[1])]>>

IsNotFound(status_code) == status_code = 404

IsFailureFrom400(status_code) == status_code >= 400

IsFailure(status_code) == status_code # 200

\* str.upper / str.lower on one character of the model's alphabet.
Upper(c) == CASE c = "a" -> "A" [] c = "z" -> "Z" [] OTHER -> c

Lower(c) == CASE c = "A" -> "a" [] c = "Z" -> "z" [] OTHER -> c

\* str.capitalize(): first character upper-cased, all the others lower-cased.
CapitalizeFirstOnly(s) == [i \in 1..Len(s) |-> IF i = 1 THEN Upper(s[i]) ELSE s[i]]

Capitalize(s) == [i \in 1..Len(s) |-> IF i = 1 THEN Upper(s[i]) ELSE Lower(s[i])]

\* dict.get(key): the value, or None when the key is absent.
Get(d, k) == IF k \in DOMAIN d THEN Some(d[k]) ELSE None

\* data["weather"][0]
LastCondition(weather) == weather[Len(weather)]

FirstCondition(weather) == weather[1]

\* WeatherInfo(...): pydantic validation; city: str rejects None.
WeatherInfoOptionalCity(city, temp, humidity, description, speed) ==
    Returned([city |-> IF city = None THEN "" ELSE city[1],
              temperature_celsius |-> temp,
              humidity_percent |-> humidity,
              weather_description |-> description,
              wind_speed_mps |-> speed])

WeatherInfo(city, temp, humidity, description, speed) ==
    IF city = None THEN Unhandled("ValidationError")
    ELSE Returned([city |-> city[1],
                   temperature_celsius |-> temp,
                   humidity_percent |-> humidity,
                   weather_description |-> description,
                   wind_speed_mps |-> speed])

\* The keyword arguments of WeatherInfo(...) are evaluated in order; the first
\* absent key or index raises.
MapPayload(data) ==
    IF "main" \notin DOMAIN data THEN Unhandled("KeyError")
    ELSE IF "temp" \notin DOMAIN data["main"] THEN Unhandled("KeyError")
    ELSE IF "humidity" \notin DOMAIN data["main"] THEN Unhandled("KeyError")
    ELSE IF "weather" \notin DOMAIN data THEN Unhandled("KeyError")
    ELSE IF Len(data["weather"]) = 0 THEN Unhandled("IndexError")
    ELSE IF "description" \notin DOMAIN FirstCondition(data["weather"]) THEN Unhandled("KeyError")
    ELSE IF "wind" \notin DOMAIN data THEN Unhandled("KeyError")
    ELSE IF "speed" \notin DOMAIN data["wind"] THEN Unhandled("KeyError")
    ELSE WeatherInfo(Get(data, "name"),
                     data["main"]["temp"],
                     data["main"]["humidity"],
                     Capitalize(FirstCondition(data["weather"])["description"]),
                     data["wind"]["speed"])

\* fetch_weather from the return of client.get to its raise or return.
HandleResponse(city, resp) ==
    IF IsNotFound(resp.status_code) THEN HTTPException(404, NotFoundDetail(city))
    ELSE IF IsFailure(resp.status_code) THEN UpstreamFailure
    ELSE IF ~resp.text.is_json THEN Unhandled("JSONDecodeError")
    ELSE MapPayload(resp.text.data)

\* A local variable of request r is bound in r's own coroutine frame.
BindGlobal(f, r, v) == [x \in Requests |-> v]

Bind(f, r, v) == (r :> v) @@ f

(* ------------------------------ actions -------------------------------- *)

Init ==
    /\ environ \in Environs
    /\ pc = [r \in Requests |-> "idle"]
    /\ city_name = <<>>
    /\ api_key = <<>>
    /\ outbound = [r \in Requests |-> <<>>]
    /\ response = <<>>
    /\ stdout = <<>>
    /\ pending = <<>>
    /\ result = <<>>

\* The credential variable of the process environment is set, changed or unset.
SetEnv(e) ==
    /\ e # environ
    /\ environ' = e
    /\ UNCHANGED <<pc, city_name, api_key, outbound, response, stdout, pending, result>>

\* GET /weather/{city}: get_weather calls fetch_weather, which runs to its
\* first suspension: it reads the key, raises when it is missing, and
\* otherwise issues the outbound GET and awaits the reply.
Start(r, city) ==
    /\ pc[r] = "idle"
    /\ LET key == getenv(KeyName) IN
        /\ city_name' = Bind(city_name, r, city)
        /\ api_key' = Bind(api_key, r, key)
        /\ outbound' = [outbound EXCEPT ![r] = OutboundCalls(city, key)]
        /\ IF KeyMissing(key)
           THEN /\ result' = Bind(result, r, ConfigMissing)
                /\ pc' = [pc EXCEPT ![r] = "done"]
           ELSE /\ pc' = [pc EXCEPT ![r] = "awaiting"]
                /\ UNCHANGED result
    /\ UNCHANGED <<environ, response, stdout, pending>>

\* The upstream replies; fetch_weather resumes, prints the two debugging
\* lines, classifies the status and raises or returns inside the `async
\* with` block, whose exit (closing the client) is awaited next.
Respond(r, resp) ==
    /\ pc[r] = "awaiting"
    /\ response' = Bind(response, r, resp)
    /\ stdout' = stdout \o <<[label |-> "OpenWeatherMap status code:", status_code |-> resp.status_code],
                             [label |-> "Response text:", text |-> resp.text]>>
    /\ pending' = Bind(pending, r, HandleResponse(city_name[r], resp))
    /\ pc' = [pc EXCEPT ![r] = "closing"]
    /\ UNCHANGED <<environ, city_name, api_key, outbound, result>>

\* The awaited client.get raises instead of returning (connection error or
\* timeout): nothing catches it, no response is bound and nothing is printed;
\* the exception leaves through the exit of the `async with` block.
TransportError(r) ==
    /\ pc[r] = "awaiting"
    /\ pending' = Bind(pending, r, Unhandled("TransportError"))
    /\ pc' = [pc EXCEPT ![r] = "closing"]
    /\ UNCHANGED <<environ, city_name, api_key, outbound, response, stdout, result>>

\* The client is closed; the pending exception or report leaves
\* fetch_weather and get_weather unchanged and the request is answered.
Close(r) ==
    /\ pc[r] = "closing"
    /\ result' = Bind(result, r, pending[r])
    /\ pc' = [pc EXCEPT ![r] = "done"]
    /\ UNCHANGED <<environ, city_name, api_key, outbound, response, stdout, pending>>

Next ==
    \/ \E e \in Environs : SetEnv(e)
    \/ \E r \in Requests, c \in Cities : Start(r, c)
    \/ \E r \in Requests, resp \in Responses : Respond(r, resp)
    \/ \E r \in Requests : TransportError(r)
    \/ \E r \in Requests : Close(r)

Spec == Init /\ [][Next]_vars

\* One request against every upstream answer.
NextMap ==
    \/ \E c \in Cities : Start(1, c)
    \/ \E resp \in MapResponses : Respond(1, resp)
    \/ TransportError(1)
    \/ Close(1)

SpecMap == Init /\ [][NextMap]_vars

\* One request whose payload carries every description.
NextCap ==
    \/ \E c \in Cities : Start(1, c)
    \/ \E resp \in CapResponses : Respond(1, resp)
    \/ TransportError(1)
    \/ Close(1)

SpecCap == Init /\ [][NextCap]_vars

(* ------------------------------ properties ----------------------------- *)

Started(r) == pc[r] # "idle"

Starts(r) == pc[r] = "idle" /\ pc'[r] # "idle"

Finished(r) == r \in DOMAIN result

Answered(r) == r \in DOMAIN response

\* The request's outcome is settled: raised or returned, delivered or not yet.
Decided(r) == r \in DOMAIN pending \/ r \in DOMAIN result

Outcome(r) == IF r \in DOMAIN result THEN result[r] ELSE pending[r]

\* C1: a request handled while the credential variable is unset fails with
\* the configuration-missing error (500) and issues no outbound call; one
\* handled while it holds a non-empty value never fails with that error,
\* whatever earlier requests did.  The variable is read at the request's own
\* first step.
C1_ConfigMissingWhenUnset ==
    /\ [][\A r \in Requests : Starts(r) =>
            /\ KeyName \notin DOMAIN environ =>
                  /\ pc'[r] = "done"
                  /\ r \in DOMAIN result' /\ result'[r] = ConfigMissing
                  /\ result'[r].status_code = 500
                  /\ outbound'[r] = <<>>
            /\ (KeyName \in DOMAIN environ /\ environ[KeyName] # "") =>
                  /\ r \notin DOMAIN result'
                  /\ pc'[r] = "awaiting"]_vars
    /\ [](\A r \in Requests : (Decided(r) /\ api_key[r] \notin {None, Some("")}) =>
            Outcome(r) # ConfigMissing)
    /\ [](\A r \in Requests : (Decided(r) /\ Outcome(r) = ConfigMissing) =>
            outbound[r] = <<>> /\ ~Answered(r))

C1_Witness ==
    \E r1, r2 \in Requests :
        /\ Finished(r1) /\ api_key[r1] = None /\ result[r1] = ConfigMissing
        /\ outbound[r1] = <<>>
        /\ Finished(r2) /\ api_key[r2] = Some("key-A") /\ result[r2] # ConfigMissing
        /\ city_name[r1] = city_name[r2]

\* C2: once its outcome is settled, an upstream 404 becomes a 404 HTTPException whose detail contains the
\* requested city name as received; nothing of the body is returned.
C2_NotFoundNamesCity ==
    \A r \in Requests : (Answered(r) /\ response[r].status_code = 404) =>
        /\ Decided(r)
        /\ Outcome(r).status_code = 404
        /\ Outcome(r).raised = "HTTPException"
        /\ \E i \in DOMAIN Outcome(r).detail : Outcome(r).detail[i] = city_name[r]
        /\ "body" \notin DOMAIN Outcome(r)

C2_Witness ==
    \E r \in Requests :
        /\ Answered(r) /\ response[r] = Response(404, Json(CompleteObject))
        /\ city_name[r] = "Zürich"
        /\ Finished(r) /\ result[r].status_code = 404

\* C3: every upstream status other than 200 and 404 becomes the one generic
\* 502 error, the same for every such status and body; the upstream code is
\* not returned and the body is not mapped.
C3_GenericUpstreamFailure ==
    \A r \in Requests : (Answered(r) /\ response[r].status_code \notin {200, 404}) =>
        /\ Decided(r)
        /\ Outcome(r).status_code = 502
        /\ Outcome(r).status_code # response[r].status_code
        /\ Outcome(r).raised = "HTTPException"
        /\ Outcome(r).detail = <<"Something went wrong while fetching weather data.">>
        /\ "body" \notin DOMAIN Outcome(r)

C3_Witness ==
    \E r \in Requests :
        /\ Answered(r) /\ response[r] = Response(201, Json(CompleteObject))
        /\ Finished(r) /\ result[r].status_code = 502

\* A payload with every field the mapping reads.
Complete(data) ==
    /\ {"name", "main", "weather", "wind"} \subseteq DOMAIN data
    /\ {"temp", "humidity"} \subseteq DOMAIN data["main"]
    /\ "speed" \in DOMAIN data["wind"]
    /\ Len(data["weather"]) >= 1
    /\ "description" \in DOMAIN data["weather"][1]

Mappable(r) ==
    /\ Answered(r)
    /\ response[r].status_code = 200
    /\ response[r].text.is_json

\* C4: a 200 whose payload has every expected field yields a 200 WeatherInfo
\* with city = name, temperature_celsius = main.temp, humidity_percent =
\* main.humidity, wind_speed_mps = wind.speed and weather_description taken
\* from weather[0].description, whatever the length of the weather array.
C4_FieldsMapped ==
    \A r \in Requests : (Mappable(r) /\ Complete(response[r].text.data)) =>
        LET data == response[r].text.data IN
        /\ Decided(r)
        /\ Outcome(r).status_code = 200
        /\ "body" \in DOMAIN Outcome(r)
        /\ Outcome(r).body.city = data["name"]
        /\ Outcome(r).body.city # city_name[r]
        /\ Outcome(r).body.temperature_celsius = data["main"]["temp"]
        /\ Outcome(r).body.humidity_percent = data["main"]["humidity"]
        /\ Outcome(r).body.wind_speed_mps = data["wind"]["speed"]
        /\ Outcome(r).body.weather_description = Capitalize(data["weather"][1]["description"])

C4_Witness ==
    \E r \in Requests :
        /\ Mappable(r) /\ Complete(response[r].text.data)
        /\ Len(response[r].text.data["weather"]) = 2
        /\ response[r].text.data["weather"][1] = [description |-> <<"a", "Z">>]
        /\ response[r].text.data["weather"][2] = [description |-> <<"Z">>]
        /\ response[r].text.data["main"]["temp"] = -3
        /\ Finished(r) /\ result[r].status_code = 200

\* The description the upstream sent first, and the one the report carries.
SentDescription(r) == response[r].text.data["weather"][1]["description"]

ReportedDescription(r) == result[r].body.weather_description

Reported(r) == Mappable(r) /\ Finished(r) /\ result[r].status_code = 200

\* C5 as claimed: the first character is upper-cased and the remaining
\* characters are the upstream's, as provided.
C5_RestKept ==
    \A r \in Requests : Reported(r) =>
        LET d == SentDescription(r) IN
        ReportedDescription(r) = IF d = <<>> THEN <<>> ELSE <<Upper(d[1])>> \o Tail(d)

\* C5, amended: the reported description has the length of the upstream's,
\* its first character is the upstream's upper-cased and every later
\* character is the upstream's lower-cased.
C5_FirstUpperRestLower ==
    \A r \in Requests : Reported(r) =>
        LET d == SentDescription(r)
            out == ReportedDescription(r)
        IN  /\ Len(out) = Len(d)
            /\ Len(d) >= 1 => out[1] = Upper(d[1])
            /\ \A i \in 2..Len(d) : out[i] = Lower(d[i])

C5_Witness ==
    \E r \in Requests :
        /\ Reported(r)
        /\ SentDescription(r) = <<"a", "Z">>
        /\ ReportedDescription(r) = <<"A", "z">>

\* C6: every city name reaches the upstream as received: a request whose key
\* is usable always issues its call, with q = the city name given to
\* get_weather, appid = the key read for this request and units = metric.
C6_CityPassedThrough ==
    \A r \in Requests : Started(r) =>
        /\ (api_key[r] # None /\ api_key[r] # Some("")) => Len(outbound[r]) >= 1
        /\ \A i \in DOMAIN outbound[r] :
              /\ outbound[r][i].params.q = city_name[r]
              /\ outbound[r][i].params.appid = api_key[r][1]
              /\ outbound[r][i].params.units = "metric"
              /\ DOMAIN outbound[r][i].params = {"q", "appid", "units"}

C6_Witness ==
    \E r1, r2 \in Requests :
        /\ Started(r1) /\ city_name[r1] = " " /\ api_key[r1] = Some("key-A")
        /\ outbound[r1] # <<>> /\ outbound[r1][1].params.q = " "
        /\ Started(r2) /\ city_name[r2] = "Zürich" /\ api_key[r2] = Some("key-B")
        /\ outbound[r2] # <<>> /\ outbound[r2][1].params.appid = "key-B"

SameInputs(r1, r2) ==
    /\ city_name[r1] = city_name[r2]
    /\ api_key[r1] = api_key[r2]
    /\ Answered(r1) = Answered(r2)
    /\ Answered(r1) => response[r1] = response[r2]

\* What request r has bound so far.
Bound(f, r) == IF r \in DOMAIN f THEN Some(f[r]) ELSE None

\* C7: two finished requests with the same city, the same key and the same
\* upstream answer have the same result, in every interleaving; and no step
\* touches what another request holds: a request's city, key, answer and
\* result change only at its own steps and, once bound, never.
C7_RequestsIndependent ==
    /\ [](\A r1, r2 \in Requests :
            (Finished(r1) /\ Finished(r2) /\ SameInputs(r1, r2)) => result[r1] = result[r2])
    /\ [][\A r \in Requests :
            /\ pc'[r] = pc[r] =>
                  /\ Bound(city_name, r)' = Bound(city_name, r)
                  /\ Bound(api_key, r)' = Bound(api_key, r)
                  /\ Bound(response, r)' = Bound(response, r)
                  /\ Bound(pending, r)' = Bound(pending, r)
                  /\ Bound(result, r)' = Bound(result, r)
                  /\ outbound'[r] = outbound[r]
            /\ Bound(city_name, r) # None => Bound(city_name, r)' = Bound(city_name, r)
            /\ Bound(api_key, r) # None => Bound(api_key, r)' = Bound(api_key, r)
            /\ Bound(response, r) # None => Bound(response, r)' = Bound(response, r)
            /\ Bound(pending, r) # None => Bound(pending, r)' = Bound(pending, r)
            /\ Bound(result, r) # None => Bound(result, r)' = Bound(result, r)]_vars

C7_Witness ==
    \E r1, r2 \in Requests :
        /\ r1 # r2
        /\ Finished(r1) /\ Finished(r2) /\ SameInputs(r1, r2)
        /\ Answered(r1) /\ response[r1] = Response(200, Json(CompleteObject))
        /\ result[r1] = result[r2] /\ result[r1].status_code = 200
        /\ Len(stdout) = 4

\* C8: a request issues at most one outbound call: none when its key is
\* missing, exactly one otherwise; and once it has failed (also by a
\* transport error of its call) or returned it issues no further call.
C8_SingleOutboundCall ==
    /\ [](\A r \in Requests :
            /\ Len(outbound[r]) <= 1
            /\ (Started(r) /\ api_key[r] # None /\ api_key[r] # Some("")) => Len(outbound[r]) = 1)
    /\ [][\A r \in Requests : Decided(r) => outbound'[r] = outbound[r]]_vars

C8_Witness ==
    \E r1, r2 \in Requests :
        /\ Finished(r1) /\ result[r1].raised \in {"KeyError", "TransportError"}
        /\ Len(outbound[r1]) = 1
        /\ Finished(r2) /\ result[r2].status_code \in {404, 502} /\ Len(outbound[r2]) = 1

\* C9: a 200 whose JSON payload lacks an expected field ends as an unhandled
\* 500, never as 404, 502 or any HTTPException, and every 200 report comes
\* from a payload with all the fields.
C9_MissingFieldIsServerError ==
    \A r \in Requests : Mappable(r) =>
        /\ Decided(r)
        /\ ~Complete(response[r].text.data) =>
              /\ Outcome(r).status_code = 500
              /\ Outcome(r).raised \in {"KeyError", "IndexError", "ValidationError"}
              /\ "body" \notin DOMAIN Outcome(r)
        /\ Outcome(r).status_code = 200 => Complete(response[r].text.data)

C9_Witness ==
    \E r \in Requests :
        /\ Mappable(r)
        /\ DOMAIN response[r].text.data = {"main", "weather", "wind"}
        /\ Complete(response[r].text.data @@ [name |-> "London"])
        /\ Finished(r) /\ result[r].status_code = 500 /\ result[r].raised = "ValidationError"

\* C10: a credential variable set to the empty string acts as an unset one:
\* the request fails with the configuration-missing error and issues no
\* call; a call is issued only with a non-empty key.
C10_EmptyKeyIsMissing ==
    /\ [][\A r \in Requests :
            (Starts(r) /\ KeyName \in DOMAIN environ /\ environ[KeyName] = "") =>
                /\ pc'[r] = "done"
                /\ r \in DOMAIN result' /\ result'[r] = ConfigMissing
                /\ outbound'[r] = <<>>]_vars
    /\ [](\A r \in Requests : \A i \in DOMAIN outbound[r] :
            outbound[r][i].params.appid # "" /\ api_key[r] # None)

C10_Witness ==
    \E r1, r2 \in Requests :
        /\ Finished(r1) /\ api_key[r1] = Some("") /\ result[r1] = ConfigMissing
        /\ outbound[r1] = <<>>
        /\ Finished(r2) /\ api_key[r2] = None /\ result[r2] = result[r1]

====
